---- MODULE Spec2Model ----
(***************************************************************************)
(* A model of the proctoring relay of backend/main.py: the student and     *)
(* teacher WebSocket handlers, the /notify violation intake and the        *)
(* /violations queries, all coroutines of one asyncio event loop sharing   *)
(* the module-level active_students, last_frames, teachers and             *)
(* active_violations.  A coroutine runs atomically between two awaits;     *)
(* every await (receive_json, send_json) is a point where the others run.  *)
(* With it, the analytics of backend/hackathon_features.py: the timestamp  *)
(* normalizer, the risk ranking and the four /api/hackathon queries over   *)
(* the same log, registry and cache.  Last, the loop of the student-side   *)
(* backend/webcam_monitor.py, which posts to the intake under a cooldown.  *)
(***************************************************************************)
EXTENDS Integers, Sequences, FiniteSets, TLC

\* ---------------------------------------------------------------- bounds
\* Frames pushed plus violations submitted in one run.
MaxEvents == 2
\* Subscribe messages handled in one run.
MaxSubscribes == 1

\* ---------------------------------------------------------------- inputs
None == "none"
StudentIds == {"A", "B"}
StudentHandles == {"h1", "h2"}
TeacherHandles == {"t1", "t2"}
Images == {"img1", "img2"}
ViolationTypes == {"tab_switch"}
EventIds == 1..MaxEvents
\* the violation types webcam_monitor.py posts
AlertTypes == {"face_not_found", "multiple_faces", "phone_detected"}
\* time.time() when the loop of webcam_monitor.py starts: time since the
\* epoch, so more than any cooldown
MonitorStart == 10

\* What send_json raises on a connection that is no longer open depends on the
\* installed Starlette/uvicorn: WebSocketDisconnect (an OSError translated by
\* Starlette) or another Exception such as RuntimeError.
ExcKinds == {"WebSocketDisconnect", "RuntimeError"}

VARIABLES
    active_students,    \* main.py:72  student_id -> ws (None: no key)
    last_frames,        \* main.py:73  student_id -> image (None: no key)
    teachers,           \* main.py:74  set of teacher websockets
    active_violations,  \* main.py:75  list of violation messages
    conn,               \* teacher handle -> "new" | "open" | "closed": its connection
    spc,                \* student handle -> position of its student_ws coroutine
    sid,                \* student handle -> local student_id of student_ws
    srem,               \* student handle -> teachers of list(teachers) not yet sent to
    scur,               \* student handle -> event id of the frame being fanned out
    simg,               \* student handle -> msg["image"] of that frame
    tpc,                \* teacher handle -> position of its teacher_ws coroutine
    npc,                \* event id -> position of the notify_violation call it names
    nmsg,               \* event id -> local violation_msg of that call
    nrem,               \* event id -> teachers of list(teachers) not yet sent to
    nresp,              \* event id -> teachers_notified of the response (-1: none yet)
    resp,               \* the /violations response this step returned (kind None: none)
    sub,                \* the subscribe message this step handled (student_id None: none)
    inbox,              \* teacher handle -> messages delivered to it, in order
    snap,               \* history: event id -> list(teachers) taken for its fan-out
    sends,              \* history: event id -> teacher -> outcomes of the sends made
    pushed,             \* history: student_id -> image of the last frame pushed for it
    nextEv,             \* the id of the next event: events are numbered as they arrive
    nsub,               \* number of subscribe messages handled so far
    now,                \* datetime.now(): the instant of the wall clock
    report,             \* the /notify or /api/hackathon response last returned,
                        \* while no other handler has run since (kind None: none)
    monitor_pc,         \* webcam_monitor.py: the position of main() in its loop
    face_count,         \* webcam_monitor.py:188  len(faces) of the frame read
    phone_seen,         \* webcam_monitor.py:209  a phone was detected in the frame
    time_time,          \* time.time() on the student machine, in seconds
    last_sent,          \* webcam_monitor.py:169  v_type -> instant of its last alert
    attempts            \* history: v_type -> the send_violation calls made for it

vars == <<active_students, last_frames, teachers, active_violations, conn, spc,
          sid, srem, scur, simg, tpc, npc, nmsg, nrem, nresp, resp, sub, inbox, snap,
          sends, pushed, nextEv, nsub, now, report, monitor_pc, face_count,
          phone_seen, time_time, last_sent, attempts>>

relay == <<active_students, last_frames, teachers, active_violations>>
student_locals == <<sid, srem, scur, simg>>
notify_locals == <<npc, nmsg, nrem, nresp>>
history == <<snap, sends, pushed, nextEv>>
monitor == <<monitor_pc, face_count, phone_seen, time_time, last_sent, attempts>>
server == <<relay, conn, spc, student_locals, tpc, notify_locals, resp, sub, inbox,
            history, nsub, now, report>>

\* ------------------------------------------------------------- registry
\* active_students[student_id] = ws
register_student(reg, student_id, ws) == [reg EXCEPT ![student_id] = ws]

\* active_students.pop(student_id, None): by key alone, whatever ws it holds
unregister_student(reg, student_id, ws) == [reg EXCEPT ![student_id] = None]

\* teachers.add(ws) / teachers.discard(ws)
register_observer(obs, ws) == obs \cup {ws}
unregister_observer(obs, ws) == obs \ {ws}

\* A cache that keeps the first frame of a student id (setdefault).
cache_frame_first_only(cache, student_id, image) ==
    IF cache[student_id] = None THEN [cache EXCEPT ![student_id] = image] ELSE cache

\* A cache of one entry: writing a frame drops the frames of the other ids.
cache_frame_single_entry(cache, student_id, image) ==
    [s \in StudentIds |-> IF s = student_id THEN image ELSE None]

\* last_frames[student_id] = msg["image"]
cache_frame(cache, student_id, image) == [cache EXCEPT ![student_id] = image]

\* The except clauses of the three handlers.
student_catches(exc) == exc = "WebSocketDisconnect"
teacher_catches(exc) == exc = "WebSocketDisconnect"
\* An intake that catches what the handlers catch, and one with no try at all.
notify_catches_disconnect_only(exc) == exc = "WebSocketDisconnect"
notify_catches_nothing(exc) == FALSE

notify_catches(exc) == exc \in ExcKinds \cup {"KeyError"}

\* ------------------------------------------------------------- messages
\* ev numbers the event a message carries (0: the reply to a subscribe); it is
\* no field of the JSON sent.
screen_msg(student_id, image, ev) ==
    [type |-> "screen", student_id |-> student_id, body |-> image, ev |-> ev]

violation_msg(student_id, violation_type) ==
    [type |-> "violation_alert", student_id |-> student_id,
     violation_type |-> violation_type, violation_data |-> "data",
     timestamp |-> "ts"]

alert_msg(v, ev) ==
    [type |-> v.type, student_id |-> v.student_id, body |-> v.violation_type, ev |-> ev]

\* The outcomes of await t.send_json(...): delivered, or an exception raised.
SendOutcomes(t) == IF conn[t] = "open" THEN {"ok"} ELSE ExcKinds

\* history of one send of event e to teacher t, with its outcome
Sent(e, t, o) == [sends EXCEPT ![e][t] = Append(@, IF o = "ok" THEN "ok" ELSE "failed")]

\* resp and sub describe the request one step handled: they are set by that
\* step and gone with the next.  report is gone with the next step of a handler.
NoResponse == [kind |-> None, violations |-> <<>>]
NoSubscribe == [to |-> None, student_id |-> None]
NoReport == [kind |-> None]
NoRequest ==
    /\ resp' = NoResponse
    /\ sub' = NoSubscribe
    /\ report' = NoReport

\* ----------------------------------------------------------------- Init
Init ==
    /\ active_students = [s \in StudentIds |-> None]
    /\ last_frames = [s \in StudentIds |-> None]
    /\ teachers = {}
    /\ active_violations = <<>>
    /\ conn = [t \in TeacherHandles |-> "new"]
    /\ spc = [h \in StudentHandles |-> "idle"]
    /\ sid = [h \in StudentHandles |-> None]
    /\ srem = [h \in StudentHandles |-> {}]
    /\ scur = [h \in StudentHandles |-> 0]
    /\ simg = [h \in StudentHandles |-> None]
    /\ tpc = [t \in TeacherHandles |-> "idle"]
    /\ npc = [e \in EventIds |-> "idle"]
    /\ nmsg = [e \in EventIds |-> violation_msg(None, None)]
    /\ nrem = [e \in EventIds |-> {}]
    /\ nresp = [e \in EventIds |-> -1]
    /\ resp = NoResponse
    /\ sub = NoSubscribe
    /\ inbox = [t \in TeacherHandles |-> <<>>]
    /\ snap = [e \in EventIds |-> {}]
    /\ sends = [e \in EventIds |-> [t \in TeacherHandles |-> <<>>]]
    /\ pushed = [s \in StudentIds |-> None]
    /\ nextEv = 1
    /\ nsub = 0
    /\ now = 0
    /\ report = NoReport
    /\ monitor_pc = "read"
    /\ face_count = 0
    /\ phone_seen = FALSE
    /\ time_time = MonitorStart
    /\ last_sent = [v_type \in {} |-> 0]
    /\ attempts = [v_type \in AlertTypes |-> <<>>]

\* ------------------------------------------------------ student_ws
\* Connections are accepted in the order of their handles' names: the handles
\* are interchangeable, so this only leaves out renamings of the same runs.
AcceptOrder == <<"h1", "h2", "t1", "t2">>
Earlier(h, handles) ==
    {g \in handles : \E i, j \in 1..Len(AcceptOrder) :
                        i < j /\ AcceptOrder[i] = g /\ AcceptOrder[j] = h}

\* ws.accept(), the handshake message, active_students[student_id] = ws.
\* (A connection that ends before its handshake registers nothing.)
StudentConnect(h, student_id) ==
    /\ spc[h] = "idle"
    /\ \A g \in Earlier(h, StudentHandles) : spc[g] # "idle"
    /\ sid' = [sid EXCEPT ![h] = student_id]
    /\ active_students' = register_student(active_students, student_id, h)
    /\ spc' = [spc EXCEPT ![h] = "loop"]
    /\ NoRequest
    /\ UNCHANGED <<monitor, now, last_frames, teachers, active_violations, conn,
                   srem, scur, simg, tpc, notify_locals, inbox, history, nsub>>

\* The handler leaves by its except WebSocketDisconnect clause (lines 100-102).
\* Its locals end with it.
StudentCaught(h) ==
    /\ active_students' = unregister_student(active_students, sid[h], h)
    /\ spc' = [spc EXCEPT ![h] = "done"]
    /\ sid' = [sid EXCEPT ![h] = None]
    /\ srem' = [srem EXCEPT ![h] = {}]
    /\ scur' = [scur EXCEPT ![h] = 0]
    /\ simg' = [simg EXCEPT ![h] = None]

\* The handler is ended by an exception its except clause does not name.
StudentUncaught(h) ==
    /\ active_students' = active_students
    /\ spc' = [spc EXCEPT ![h] = "crashed"]
    /\ sid' = [sid EXCEPT ![h] = None]
    /\ srem' = [srem EXCEPT ![h] = {}]
    /\ scur' = [scur EXCEPT ![h] = 0]
    /\ simg' = [simg EXCEPT ![h] = None]

StudentRaises(h, exc) ==
    IF student_catches(exc) THEN StudentCaught(h) ELSE StudentUncaught(h)

\* The student's connection has gone away and receive_json raises
\* WebSocketDisconnect at line 88.  A close that happens during a fan-out is
\* seen here, at the next receive_json.
StudentDisconnect(h) ==
    /\ spc[h] = "loop"
    /\ StudentRaises(h, "WebSocketDisconnect")
    /\ NoRequest
    /\ UNCHANGED <<monitor, now, last_frames, teachers, active_violations, conn,
                   tpc, notify_locals, inbox, history, nsub>>

\* A message that is no JSON object with a "type": msg["type"] raises at line 90
StudentBadMessage(h) ==
    /\ spc[h] = "loop"
    /\ StudentRaises(h, "KeyError")
    /\ NoRequest
    /\ UNCHANGED <<monitor, now, last_frames, teachers, active_violations, conn,
                   tpc, notify_locals, inbox, history, nsub>>

\* A {"type": "screen", "image": image} message: lines 90-93, up to the first send
StudentFrame(h, image) ==
    /\ spc[h] = "loop"
    /\ nextEv <= MaxEvents
    /\ nextEv' = nextEv + 1
    /\ last_frames' = cache_frame(last_frames, sid[h], image)
    /\ pushed' = [pushed EXCEPT ![sid[h]] = image]
    /\ snap' = [snap EXCEPT ![nextEv] = teachers]
    /\ srem' = [srem EXCEPT ![h] = teachers]
    /\ IF teachers = {}
       THEN UNCHANGED <<spc, scur, simg>>
       ELSE /\ spc' = [spc EXCEPT ![h] = "fanout"]
            /\ scur' = [scur EXCEPT ![h] = nextEv]
            /\ simg' = [simg EXCEPT ![h] = image]
    /\ NoRequest
    /\ UNCHANGED <<monitor, now, active_students, teachers, active_violations,
                   conn, sid, tpc, notify_locals, inbox, sends, nsub>>

\* One await t.send_json(...) of the loop of lines 93-98, which no try encloses
StudentSend(h, t) ==
    /\ spc[h] = "fanout"
    /\ t \in srem[h]
    /\ \E o \in SendOutcomes(t) :
        /\ sends' = Sent(scur[h], t, o)
        /\ IF o = "ok"
           THEN /\ inbox' = [inbox EXCEPT ![t] =
                               Append(@, screen_msg(sid[h], simg[h], scur[h]))]
                /\ srem' = [srem EXCEPT ![h] = @ \ {t}]
                /\ IF srem[h] = {t}
                   THEN /\ spc' = [spc EXCEPT ![h] = "loop"]
                        /\ scur' = [scur EXCEPT ![h] = 0]
                        /\ simg' = [simg EXCEPT ![h] = None]
                   ELSE UNCHANGED <<spc, scur, simg>>
                /\ UNCHANGED <<active_students, sid>>
           ELSE /\ StudentRaises(h, o)
                /\ UNCHANGED inbox
    /\ NoRequest
    /\ UNCHANGED <<monitor, now, last_frames, teachers, active_violations, conn,
                   tpc, notify_locals, snap, pushed, nextEv, nsub>>

\* ------------------------------------------------------ teacher_ws
\* ws.accept(), teachers.add(ws)
TeacherConnect(t) ==
    /\ tpc[t] = "idle"
    /\ \A g \in Earlier(t, TeacherHandles) : tpc[g] # "idle"
    /\ conn' = [conn EXCEPT ![t] = "open"]
    /\ teachers' = register_observer(teachers, t)
    /\ tpc' = [tpc EXCEPT ![t] = "loop"]
    /\ NoRequest
    /\ UNCHANGED <<monitor, now, active_students, last_frames,
                   active_violations, spc, student_locals, notify_locals, inbox,
                   history, nsub>>

\* The teacher's side of the connection goes away.
TeacherClose(t) ==
    /\ conn[t] = "open"
    /\ conn' = [conn EXCEPT ![t] = "closed"]
    /\ NoRequest
    /\ UNCHANGED <<monitor, now, relay, spc, student_locals, tpc, notify_locals,
                   inbox, history, nsub>>

\* The handler leaves by its except WebSocketDisconnect clause (lines 124-126).
TeacherCaught(t) ==
    /\ teachers' = unregister_observer(teachers, t)
    /\ tpc' = [tpc EXCEPT ![t] = "done"]
    /\ conn' = [conn EXCEPT ![t] = "closed"]

\* The handler is ended by an exception its except clause does not name.
TeacherUncaught(t) ==
    /\ teachers' = teachers
    /\ tpc' = [tpc EXCEPT ![t] = "crashed"]
    /\ conn' = [conn EXCEPT ![t] = "closed"]

TeacherRaises(t, exc) ==
    IF teacher_catches(exc) THEN TeacherCaught(t) ELSE TeacherUncaught(t)

\* receive_json raises WebSocketDisconnect at line 114
TeacherDisconnect(t) ==
    /\ tpc[t] = "loop"
    /\ conn[t] = "closed"
    /\ TeacherRaises(t, "WebSocketDisconnect")
    /\ NoRequest
    /\ UNCHANGED <<monitor, now, active_students, last_frames,
                   active_violations, spc, student_locals, notify_locals, inbox,
                   history, nsub>>

\* A message that is no JSON object with a "type": msg["type"] raises at line 116
TeacherBadMessage(t) ==
    /\ tpc[t] = "loop"
    /\ TeacherRaises(t, "KeyError")
    /\ NoRequest
    /\ UNCHANGED <<monitor, now, active_students, last_frames,
                   active_violations, spc, student_locals, notify_locals, inbox,
                   history, nsub>>

\* The messages lines 118-123 send for a subscribe to student_id
subscribe_reply(cache, student_id) ==
    IF cache[student_id] # None
    THEN <<screen_msg(student_id, cache[student_id], 0)>>
    ELSE <<>>

\* A {"type": "subscribe", "student_id": student_id} message: lines 116-123
TeacherSubscribe(t, student_id) ==
    /\ tpc[t] = "loop"
    /\ nsub < MaxSubscribes
    /\ nsub' = nsub + 1
    /\ sub' = [to |-> t, student_id |-> student_id]
    /\ resp' = NoResponse
    /\ report' = NoReport
    /\ LET reply == subscribe_reply(last_frames, student_id) IN
        IF reply = <<>>
        THEN UNCHANGED <<teachers, tpc, conn, inbox>>
        ELSE \E o \in SendOutcomes(t) :
                IF o = "ok"
                THEN /\ inbox' = [inbox EXCEPT ![t] = @ \o reply]
                     /\ UNCHANGED <<teachers, tpc, conn>>
                ELSE /\ TeacherRaises(t, o)
                     /\ UNCHANGED inbox
    /\ UNCHANGED <<monitor, now, active_students, last_frames,
                   active_violations, spc, student_locals, notify_locals,
                   history>>

\* ------------------------------------------------------ notify_violation
\* A log that drops a violation equal to one it holds, and one that inserts
\* at the front.
append_violation_unless_duplicate(log, v) ==
    IF \E i \in 1..Len(log) : log[i] = v THEN log ELSE Append(log, v)
append_violation_at_front(log, v) == <<v>> \o log

\* active_violations.append(violation_msg)
append_violation(log, v) == Append(log, v)

\* "teachers_notified": len(teachers)
teachers_notified(obs) == Cardinality(obs)

\* POST /notify: lines 144-165 up to the first send, or to the return when
\* no teacher is connected
NotifyViolation(student_id, violation_type) ==
    /\ nextEv <= MaxEvents
    /\ nextEv' = nextEv + 1
    /\ LET e == nextEv
           v == violation_msg(student_id, violation_type) IN
        /\ active_violations' = append_violation(active_violations, v)
        /\ nmsg' = [nmsg EXCEPT ![e] = v]
        /\ snap' = [snap EXCEPT ![e] = teachers]
        /\ nrem' = [nrem EXCEPT ![e] = teachers]
        /\ IF teachers = {}
           THEN /\ npc' = [npc EXCEPT ![e] = "returned"]
                /\ nresp' = [nresp EXCEPT ![e] = teachers_notified(teachers)]
           ELSE /\ npc' = [npc EXCEPT ![e] = "fanout"]
                /\ UNCHANGED nresp
    /\ NoRequest
    /\ UNCHANGED <<monitor, now, active_students, last_frames, teachers, conn,
                   spc, student_locals, tpc, inbox, sends, pushed, nsub>>

\* One await teacher_ws.send_json(violation_msg) of the loop of lines 165-170,
\* inside try/except Exception; after the last one, the return of lines 174-177
NotifySend(e, t) ==
    /\ npc[e] = "fanout"
    /\ t \in nrem[e]
    /\ \E o \in SendOutcomes(t) :
        /\ sends' = Sent(e, t, o)
        /\ inbox' = IF o = "ok"
                    THEN [inbox EXCEPT ![t] = Append(@, alert_msg(nmsg[e], e))]
                    ELSE inbox
        /\ IF o = "ok" \/ notify_catches(o)
           THEN /\ nrem' = [nrem EXCEPT ![e] = @ \ {t}]
                /\ IF nrem[e] = {t}
                   THEN /\ npc' = [npc EXCEPT ![e] = "returned"]
                        /\ nresp' = [nresp EXCEPT ![e] = teachers_notified(teachers)]
                   ELSE UNCHANGED <<npc, nresp>>
           ELSE /\ npc' = [npc EXCEPT ![e] = "raised"]
                /\ UNCHANGED <<nrem, nresp>>
    /\ NoRequest
    /\ UNCHANGED <<monitor, now, relay, conn, spc, student_locals, tpc, nmsg,
                   snap, pushed, nextEv, nsub>>

\* ------------------------------------------------------ queries
\* GET /violations: the whole list
get_violations(log) == log

\* GET /violations/{student_id}:
\* [v for v in active_violations if v["student_id"] == student_id]
RECURSIVE get_student_violations(_, _)
get_student_violations(log, student_id) ==
    IF log = <<>> THEN <<>>
    ELSE IF Head(log).student_id = student_id
         THEN <<Head(log)>> \o get_student_violations(Tail(log), student_id)
         ELSE get_student_violations(Tail(log), student_id)

GetViolations ==
    /\ resp' = [kind |-> "all", violations |-> get_violations(active_violations)]
    /\ sub' = NoSubscribe
    /\ report' = NoReport
    /\ UNCHANGED <<monitor, now, relay, conn, spc, student_locals, tpc,
                   notify_locals, inbox, history, nsub>>

GetStudentViolations(student_id) ==
    /\ resp' = [kind |-> student_id,
                violations |-> get_student_violations(active_violations, student_id)]
    /\ sub' = NoSubscribe
    /\ report' = NoReport
    /\ UNCHANGED <<monitor, now, relay, conn, spc, student_locals, tpc,
                   notify_locals, inbox, history, nsub>>

\* ----------------------------------------------------------------- Next
StudentOps ==
    \/ \E h \in StudentHandles, s \in StudentIds : StudentConnect(h, s)
    \/ \E h \in StudentHandles : StudentDisconnect(h)
    \/ \E h \in StudentHandles, image \in Images : StudentFrame(h, image)
    \/ \E h \in StudentHandles, t \in TeacherHandles : StudentSend(h, t)

TeacherOps(T) ==
    \/ \E t \in T : TeacherConnect(t)
    \/ \E t \in T : TeacherClose(t)
    \/ \E t \in T : TeacherDisconnect(t)

BadMessages ==
    \/ \E h \in StudentHandles : StudentBadMessage(h)
    \/ \E t \in TeacherHandles : TeacherBadMessage(t)

Subscribes(T) == \E t \in T, s \in StudentIds : TeacherSubscribe(t, s)

NotifyOps ==
    \/ \E s \in StudentIds, vt \in ViolationTypes : NotifyViolation(s, vt)
    \/ \E e \in EventIds, t \in TeacherHandles : NotifySend(e, t)

QueryOps ==
    \/ GetViolations
    \/ \E s \in StudentIds : GetStudentViolations(s)

\* The relay: both WebSocket endpoints and the violation intake, fanning out
\* frames and violations together.
Next == StudentOps \/ TeacherOps(TeacherHandles) \/ BadMessages \/ NotifyOps

Spec == Init /\ [][Next]_vars

\* The violation intake and the /violations queries, with the teachers the
\* intake broadcasts to.
NextIntake == NotifyOps \/ QueryOps \/ TeacherOps(TeacherHandles)

SpecIntake == Init /\ [][NextIntake]_vars

\* Frames and late subscription: the students, and one teacher that receives
\* the fan-out and subscribes.
NextSubscribe == StudentOps \/ TeacherOps({"t1"}) \/ Subscribes({"t1"})

SpecSubscribe == Init /\ [][NextSubscribe]_vars

\* The log under every kind of operation: the intake, the queries, the
\* students and their frames, and one teacher connecting and disconnecting.
NextLog == NotifyOps \/ QueryOps \/ StudentOps \/ TeacherOps({"t1"})

SpecLog == Init /\ [][NextLog]_vars

\* ============================================ hackathon_features.py
\* The analytics over the violation log.  Instants are counted in units of 20
\* seconds from 10:00:00 of the day the timestamps below name: a minute is 3
\* units, the 20.0 minutes of the recency factor are 60.  Scores are exact
\* fractions <<numerator, denominator>> of tenths where the code adds binary
\* floats; the two round to the same hundredth unless the exact sum is a tie,
\* which no sum of the weights and ages used here is.
MaxRecords == 3

UnitsPerMinute == 3
TenMinutes == 10
TwentyMinutes == 20
DefaultWeight == 15
TopRisky == 5

\* the instants the clock shows when a request is handled
NowSteps == {0, 3, 63}

\* The timestamp texts each parser of _parse_timestamp accepts, with the
\* instant it returns; any other text makes it raise ValueError.
fromisoformat == ("2024-05-01T10:00:40" :> 2) @@ ("2024-05-01 10:01:00" :> 3)
strptime_ymd == ("2024-05-01 10:01:00" :> 3)
strptime_dmy == ("01.05.2024 10:01:00" :> 3)

\* what a /notify form may carry as its timestamp (None: no such field)
FormTimestamps == {None, "", "ts", "2024-05-01T10:00:40", "01.05.2024 10:01:00"}
FormTypes == {"phone_detected", "yawning"}

\* SEVERITY_WEIGHTS, in tenths
SEVERITY_WEIGHTS ==
    ("tab_switch" :> 20) @@ ("face_not_found" :> 25) @@ ("multiple_faces" :> 40) @@
    ("phone_detected" :> 50) @@ ("suspicious_window" :> 30)

\* _parse_timestamp(raw_value), called when the clock shows clock
_parse_timestamp(raw_value, clock) ==
    IF raw_value = None \/ raw_value = "" THEN clock
    ELSE IF raw_value \in DOMAIN fromisoformat THEN fromisoformat[raw_value]
    ELSE IF raw_value \in DOMAIN strptime_ymd THEN strptime_ymd[raw_value]
    ELSE IF raw_value \in DOMAIN strptime_dmy THEN strptime_dmy[raw_value]
    ELSE clock

\* Thresholds that leave the boundary scores in the lower level.
risk_level_open(score) ==
    IF score > 3000 THEN "critical"
    ELSE IF score > 1500 THEN "high"
    ELSE IF score > 700 THEN "medium"
    ELSE "low"

\* _risk_level(score), score in hundredths
_risk_level(score) ==
    IF score >= 3000 THEN "critical"
    ELSE IF score >= 1500 THEN "high"
    ELSE IF score >= 700 THEN "medium"
    ELSE "low"

\* exact fractions
RECURSIVE gcd(_, _)
gcd(a, b) == IF b = 0 THEN a ELSE gcd(b, a % b)
lcm(a, b) == (a \div gcd(a, b)) * b
frac(n, d) == LET g == gcd(n, d) IN <<n \div g, d \div g>>
frac_add(x, y) ==
    LET l == lcm(x[2], y[2]) IN frac(x[1] * (l \div x[2]) + y[1] * (l \div y[2]), l)
frac_less(x, y) == x[1] * y[2] < y[1] * x[2]

\* age_minutes = max((now - ts).total_seconds() / 60, 0.0)
age_minutes(clock, ts) ==
    IF clock - ts > 0 THEN frac(clock - ts, UnitsPerMinute) ELSE <<0, 1>>

\* A factor that halves in 40 minutes.
recency_factor_slow(age) ==
    frac(2 * TwentyMinutes * age[2], 2 * TwentyMinutes * age[2] + age[1])

\* recency_factor = 1.0 / (1.0 + (age_minutes / 20.0))
recency_factor(age) == frac(TwentyMinutes * age[2], TwentyMinutes * age[2] + age[1])

\* base_weight = SEVERITY_WEIGHTS.get(violation_type, 1.5)
base_weight(violation_type) ==
    IF violation_type \in DOMAIN SEVERITY_WEIGHTS
    THEN SEVERITY_WEIGHTS[violation_type]
    ELSE DefaultWeight

\* base_weight * recency_factor of one violation, in tenths
weighted(violation, clock) ==
    LET f == recency_factor(age_minutes(clock, _parse_timestamp(violation.timestamp, clock)))
    IN frac(base_weight(violation.violation_type) * f[1], f[2])

\* A score that is the mean of the weighted violations, not their sum.
RECURSIVE risk_mean(_, _)
risk_mean(vs, clock) ==
    IF vs = <<>> THEN <<0, 1>>
    ELSE LET rest == SubSeq(vs, 1, Len(vs) - 1)
             m == risk_mean(rest, clock)
             w == weighted(vs[Len(vs)], clock)
         IN frac(frac_add(frac(m[1] * Len(rest), m[2]), w)[1],
                 frac_add(frac(m[1] * Len(rest), m[2]), w)[2] * Len(vs))

\* entry["risk_score"] after the loop of lines 52-67 over the violations vs
RECURSIVE risk_sum(_, _)
risk_sum(vs, clock) ==
    IF vs = <<>> THEN <<0, 1>>
    ELSE frac_add(risk_sum(SubSeq(vs, 1, Len(vs) - 1), clock), weighted(vs[Len(vs)], clock))

\* round(x, 2) of x tenths, in hundredths, half to even
round2(x) ==
    LET q == x[1] \div x[2]
        r == x[1] % x[2]
        h == (10 * r) \div x[2]
        rest == (10 * r) % x[2]
        down == 10 * q + h
    IN IF 2 * rest > x[2] THEN down + 1
       ELSE IF 2 * rest = x[2] /\ down % 2 = 1 THEN down + 1
       ELSE down

\* the keys of a dict or Counter that a loop over seq fills: in order of
\* first appearance
RECURSIVE keys_in_order(_)
keys_in_order(seq) ==
    IF seq = <<>> THEN <<>>
    ELSE LET keys == keys_in_order(SubSeq(seq, 1, Len(seq) - 1))
             x == seq[Len(seq)]
         IN IF \E i \in 1..Len(keys) : keys[i] = x THEN keys ELSE Append(keys, x)

count_of(seq, x) == Cardinality({i \in 1..Len(seq) : seq[i] = x})

student_ids_of(violations) == [i \in 1..Len(violations) |-> violations[i].student_id]
types_of(violations) == [i \in 1..Len(violations) |-> violations[i].violation_type]

\* A most_common that returns the key counted least.
least_common(seq) ==
    LET keys == keys_in_order(seq)
        k == CHOOSE i \in 1..Len(keys) :
                /\ \A j \in 1..Len(keys) : count_of(seq, keys[j]) >= count_of(seq, keys[i])
                /\ \A j \in 1..(i - 1) : count_of(seq, keys[j]) > count_of(seq, keys[i])
    IN <<keys[k], count_of(seq, keys[k])>>

\* Counter(seq).most_common(1)[0]: the first key counted with the highest count
most_common(seq) ==
    LET keys == keys_in_order(seq)
        k == CHOOSE i \in 1..Len(keys) :
                /\ \A j \in 1..Len(keys) : count_of(seq, keys[j]) <= count_of(seq, keys[i])
                /\ \A j \in 1..(i - 1) : count_of(seq, keys[j]) < count_of(seq, keys[i])
    IN <<keys[k], count_of(seq, keys[k])>>

\* entry["last_incident_at"] after the loop: the latest ts
last_incident_at(vs, clock) ==
    LET ts(i) == _parse_timestamp(vs[i].timestamp, clock)
    IN ts(CHOOSE i \in 1..Len(vs) : \A j \in 1..Len(vs) : ts(j) <= ts(i))

\* the summary lines 71-80 build for one student from its violations vs
risk_entry(student_id, vs, clock) ==
    LET score == round2(risk_sum(vs, clock)) IN
    [student_id |-> student_id,
     incidents |-> Len(vs),
     risk_score |-> score,
     risk_level |-> _risk_level(score),
     last_incident_at |-> last_incident_at(vs, clock),
     top_violation_type |-> most_common(types_of(vs))[1]]

\* the sort key (risk_score, incidents), reverse=True
ranks_before(a, b) ==
    \/ a.risk_score > b.risk_score
    \/ a.risk_score = b.risk_score /\ a.incidents > b.incidents

\* A sort on the risk score alone.
RECURSIVE sort_by_score(_)
sort_by_score(result) ==
    IF result = <<>> THEN <<>>
    ELSE LET sorted == sort_by_score(SubSeq(result, 1, Len(result) - 1))
             x == result[Len(result)]
             k == Cardinality({i \in 1..Len(sorted) : sorted[i].risk_score >= x.risk_score})
         IN SubSeq(sorted, 1, k) \o <<x>> \o SubSeq(sorted, k + 1, Len(sorted))

\* result.sort(key=..., reverse=True): stable, equal keys keep their order
RECURSIVE sort_reverse(_)
sort_reverse(result) ==
    IF result = <<>> THEN <<>>
    ELSE LET sorted == sort_reverse(SubSeq(result, 1, Len(result) - 1))
             x == result[Len(result)]
             k == Cardinality({i \in 1..Len(sorted) : ~ranks_before(x, sorted[i])})
         IN SubSeq(sorted, 1, k) \o <<x>> \o SubSeq(sorted, k + 1, Len(sorted))

\* [v for v in violations if v.get("student_id") == student_id]
violations_of(violations, student_id) ==
    SelectSeq(violations, LAMBDA v : v.student_id = student_id)

\* _compute_student_risks(violations), called when the clock shows clock
_compute_student_risks(violations, clock) ==
    LET ids == keys_in_order(student_ids_of(violations)) IN
    sort_reverse([i \in 1..Len(ids) |->
                    risk_entry(ids[i], violations_of(violations, ids[i]), clock)])

\* seq[:n]
take(seq, n) == SubSeq(seq, 1, IF n < Len(seq) THEN n ELSE Len(seq))

\* A breakdown that records which types occur, not how often.
type_breakdown_presence(violations) ==
    [t \in {violations[i].violation_type : i \in 1..Len(violations)} |-> 1]

\* Counter(v.get("violation_type") for v in violations) as a dict
type_breakdown(violations) ==
    [t \in {violations[i].violation_type : i \in 1..Len(violations)} |->
        count_of(types_of(violations), t)]

\* len() of a dict kept here as a function to None
dict_len(d) == Cardinality({k \in DOMAIN d : d[k] # None})

\* the body of GET /api/hackathon/overview
overview(violations, students, frames, clock) ==
    [total_students_online |-> dict_len(students),
     students_with_live_frames |-> dict_len(frames),
     total_violations |-> Len(violations),
     active_alerts_last_10m |->
        Cardinality({i \in 1..Len(violations) :
            _parse_timestamp(violations[i].timestamp, clock)
                >= clock - TenMinutes * UnitsPerMinute}),
     top_risky_students |-> take(_compute_student_risks(violations, clock), TopRisky),
     violation_type_breakdown |-> type_breakdown(violations)]

\* the body of GET /api/hackathon/leaderboard?limit=
leaderboard(violations, limit, clock) ==
    [leaderboard |-> take(_compute_student_risks(violations, clock), limit)]

\* A key that keeps the instant: no truncation to the minute.
minute_key_exact(ts) == ts

\* ts.strftime("%Y-%m-%d %H:%M"): the minute of ts; keys of this format sort
\* as texts the way their minutes sort as numbers
minute_key(ts) == ts \div UnitsPerMinute

RECURSIVE sorted(_)
sorted(S) ==
    IF S = {} THEN <<>>
    ELSE LET m == CHOOSE x \in S : \A y \in S : x <= y IN <<m>> \o sorted(S \ {m})

\* the body of GET /api/hackathon/timeline?minutes=
timeline(violations, minutes, clock) ==
    LET from_ts == clock - minutes * UnitsPerMinute
        ts(i) == _parse_timestamp(violations[i].timestamp, clock)
        inside == {i \in 1..Len(violations) : ~(ts(i) < from_ts)}
        keys == sorted({minute_key(ts(i)) : i \in inside})
        ordered == [k \in 1..Len(keys) |->
                      [minute |-> keys[k],
                       incidents |-> Cardinality({i \in inside : minute_key(ts(i)) = keys[k]})]]
        peak == CHOOSE k \in 1..Len(ordered) :
                  /\ \A j \in 1..Len(ordered) : ordered[j].incidents <= ordered[k].incidents
                  /\ \A j \in 1..(k - 1) : ordered[j].incidents < ordered[k].incidents
    IN [window_minutes |-> minutes,
        points |-> ordered,
        peak_minute |-> IF ordered = <<>> THEN <<>> ELSE <<ordered[peak]>>]

\* the lookup table of student_insights and its default
RECOMMENDATIONS ==
    ("tab_switch" :> "Ask student to keep only one test window open.") @@
    ("face_not_found" :> "Request camera angle adjustment.") @@
    ("multiple_faces" :> "Require immediate room re-check.") @@
    ("phone_detected" :> "Do a manual integrity check now.")
DefaultRecommendation == "Run a short manual check with the student."

recommendation_for(top_type) ==
    IF top_type \in DOMAIN RECOMMENDATIONS THEN RECOMMENDATIONS[top_type]
    ELSE DefaultRecommendation

\* the body of GET /api/hackathon/student/{student_id}/insights
student_insights(violations, student_id, clock) ==
    LET vs == violations_of(violations, student_id) IN
    IF vs = <<>>
    THEN [student_id |-> student_id,
          incidents |-> 0,
          status |-> "clean",
          insight |-> "No violations recorded yet.",
          recommendation |-> "Keep monitoring in passive mode."]
    ELSE LET top == most_common(types_of(vs)) IN
         [student_id |-> student_id,
          incidents |-> Len(vs),
          risk |-> _compute_student_risks(vs, clock)[1],
          dominant_violation_type |-> top[1],
          dominant_violation_count |-> top[2],
          insight |-> <<"Most repeated issue is", top[1]>>,
          recommendation |-> recommendation_for(top[1])]

\* ------------------------------------------------------ requests
\* Time passes: the clock moves on to a later instant.
Tick(t) ==
    /\ now < t
    /\ now' = t
    /\ UNCHANGED <<monitor, relay, conn, spc, student_locals, tpc,
                   notify_locals, resp, sub, inbox, history, nsub, report>>

\* A form field declared Form(...) is required: FastAPI answers 422 before
\* the handler runs when the field is missing, and takes an empty one for
\* missing.
form_missing(value) == value = None \/ value = ""

\* violation_msg with the timestamp the form carried
violation_record(student_id, violation_type, timestamp) ==
    [violation_msg(student_id, violation_type) EXCEPT !.timestamp = timestamp]

\* POST /notify while no teacher is connected: the form is validated, the
\* violation appended, and with teachers empty the handler returns at once.
PostNotify(student_id, violation_type, timestamp) ==
    /\ teachers = {}
    /\ Len(active_violations) < MaxRecords
    /\ IF form_missing(timestamp)
       THEN /\ UNCHANGED active_violations
            /\ report' = [kind |-> "notify", at |-> now,
                          request |-> <<student_id, violation_type, timestamp>>,
                          body |-> [status |-> "422"]]
       ELSE /\ active_violations' =
                  append_violation(active_violations,
                                   violation_record(student_id, violation_type, timestamp))
            /\ report' = [kind |-> "notify", at |-> now,
                          request |-> <<student_id, violation_type, timestamp>>,
                          body |-> [status |-> "ok",
                                    teachers_notified |-> teachers_notified(teachers)]]
    /\ resp' = NoResponse
    /\ sub' = NoSubscribe
    /\ UNCHANGED <<monitor, now, active_students, last_frames, teachers, conn,
                   spc, student_locals, tpc, notify_locals, inbox, history,
                   nsub>>

\* A handler that pops the records off the list it was handed.
violations_drained(violations) == <<>>

\* The list get_violations() hands a handler is active_violations itself; the
\* handlers iterate over it and build new lists, and never write to it.
violations_after_query(violations) == violations

\* The four GET handlers have no await: each runs from its first line to its
\* return in one step of the event loop.
Answer(kind, request, body) ==
    [kind |-> kind, at |-> now, request |-> request, body |-> body]

Answered ==
    /\ active_violations' = violations_after_query(active_violations)
    /\ resp' = NoResponse
    /\ sub' = NoSubscribe
    /\ UNCHANGED <<monitor, now, active_students, last_frames, teachers, conn,
                   spc, student_locals, tpc, notify_locals, inbox, history,
                   nsub>>

Overview ==
    /\ report' = Answer("overview", <<>>,
                        overview(active_violations, active_students, last_frames, now))
    /\ Answered

Leaderboard(limit) ==
    /\ report' = Answer("leaderboard", <<limit>>,
                        leaderboard(active_violations, limit, now))
    /\ Answered

Timeline(minutes) ==
    /\ report' = Answer("timeline", <<minutes>>,
                        timeline(active_violations, minutes, now))
    /\ Answered

StudentInsights(student_id) ==
    /\ report' = Answer("insights", <<student_id>>,
                        student_insights(active_violations, student_id, now))
    /\ Answered

AnalyticsOps(limits, windows, students) ==
    \/ Overview
    \/ \E limit \in limits : Leaderboard(limit)
    \/ \E minutes \in windows : Timeline(minutes)
    \/ \E s \in students : StudentInsights(s)

PostOps ==
    \E s \in StudentIds, vt \in FormTypes, ts \in FormTimestamps : PostNotify(s, vt, ts)

Clock == \E t \in NowSteps : Tick(t)

\* The analytics: violations posted with every kind of timestamp, the clock,
\* and the four queries.
NextAnalytics ==
    PostOps \/ Clock \/ AnalyticsOps({1}, {TenMinutes, TwentyMinutes}, {"A"})

SpecAnalytics == Init /\ [][NextAnalytics]_vars

\* _risk_level applied to a score, in hundredths: the scores up to 31.00 within
\* a hundredth of a whole number, so every threshold with both its neighbours
Scores == {score \in 0..3100 : score % 100 \in {0, 1, 99}}

RiskLevel(score) ==
    /\ report' = Answer("risk_level", <<score>>, _risk_level(score))
    /\ Answered

\* The risk levels: of the scores above, and of the summaries of
\* students with up to MaxRecords phone_detected violations just posted.
NextRiskLevel ==
    \/ \E score \in Scores : RiskLevel(score)
    \/ \E s \in StudentIds : PostNotify(s, "phone_detected", "ts")
    \/ Overview

SpecRiskLevel == Init /\ [][NextRiskLevel]_vars

\* The queries among the running handlers: intake calls and frames in their
\* fan-out, connects and disconnects.
NextSnapshot ==
    \/ NotifyOps \/ StudentOps \/ TeacherOps({"t1"})
    \/ QueryOps \/ AnalyticsOps({1}, {TenMinutes}, {"A"})

SpecSnapshot == Init /\ [][NextSnapshot]_vars

\* ============================================ webcam_monitor.py
\* The monitor of one student machine: the loop of main() reads a frame,
\* detects, and posts an alert of each type it detects unless should_send
\* holds it back.  It is one thread: a step below runs from one blocking
\* call (cap.read, time.sleep, urlopen, waitKey) to the next.  Instants are
\* counted in units of 4 seconds.
MaxRunTime == 3

\* --cooldown, default 8.0 seconds
Cooldown == 2
\* len(faces): none, one, more than one
FaceCounts == 0..2
\* send_violation returns, or urlopen raises (refused, timed out, HTTP error)
SendResults == {"sent", "raised"}

\* last_sent.get(v_type, 0.0)
last_sent_get(sent, v_type) == IF v_type \in DOMAIN sent THEN sent[v_type] ELSE 0

\* A cooldown counted from the first alert of a type (setdefault).
mark_sent_first_only(sent, v_type, t) ==
    IF v_type \in DOMAIN sent THEN sent ELSE (v_type :> t) @@ sent

\* last_sent[v_type] = now
mark_sent(sent, v_type, t) == (v_type :> t) @@ sent

\* the test of should_send(v_type) called at instant t
should_send(sent, v_type, t) == t - last_sent_get(sent, v_type) >= Cooldown

\* the first operand of the if of each alert type (lines 190, 197, 209)
detected(v_type) ==
    CASE v_type = "face_not_found" -> face_count = 0
      [] v_type = "multiple_faces" -> face_count > 1
      [] v_type = "phone_detected" -> phone_seen

\* time.time() moves on
MonitorTick ==
    /\ time_time < MonitorStart + MaxRunTime
    /\ time_time' = time_time + 1
    /\ UNCHANGED <<monitor_pc, face_count, phone_seen, last_sent, attempts, server>>

\* cap.read() returns a frame; lines 186-188 and the phone detector's answer
ReadFrame(faces, phone) ==
    /\ monitor_pc = "read"
    /\ monitor_pc' = "face_not_found"
    /\ face_count' = faces
    /\ phone_seen' = phone
    /\ UNCHANGED <<time_time, last_sent, attempts, server>>

\* cap.read() returns no frame: time.sleep(0.2) and continue
ReadFailed ==
    /\ monitor_pc = "read"
    /\ monitor_pc' = "sleep"
    /\ UNCHANGED <<face_count, phone_seen, time_time, last_sent, attempts, server>>

WakeUp ==
    /\ monitor_pc = "sleep"
    /\ monitor_pc' = "read"
    /\ UNCHANGED <<face_count, phone_seen, time_time, last_sent, attempts, server>>

\* One if of lines 190-214: the detection, and should_send only when it is
\* true (and short-circuits); should_send writes last_sent before
\* send_violation is called, and the except clause swallows what it raises.
Alert(v_type, result) ==
    IF detected(v_type) /\ should_send(last_sent, v_type, time_time)
    THEN /\ last_sent' = mark_sent(last_sent, v_type, time_time)
         /\ attempts' = [attempts EXCEPT ![v_type] =
                            Append(@, [at |-> time_time, result |-> result])]
    ELSE UNCHANGED <<last_sent, attempts>>

FaceNotFound(result) ==
    /\ monitor_pc = "face_not_found"
    /\ monitor_pc' = "multiple_faces"
    /\ Alert("face_not_found", result)
    /\ UNCHANGED <<face_count, phone_seen, time_time, server>>

MultipleFaces(result) ==
    /\ monitor_pc = "multiple_faces"
    /\ monitor_pc' = "phone_detected"
    /\ Alert("multiple_faces", result)
    /\ UNCHANGED <<face_count, phone_seen, time_time, server>>

PhoneDetected(result) ==
    /\ monitor_pc = "phone_detected"
    /\ monitor_pc' = "show"
    /\ Alert("phone_detected", result)
    /\ UNCHANGED <<face_count, phone_seen, time_time, server>>

\* lines 216-230: the preview, and 'q' leaves the loop.  The frame's locals
\* are not read again.
ShowFrame(quit) ==
    /\ monitor_pc = "show"
    /\ monitor_pc' = IF quit THEN "done" ELSE "read"
    /\ face_count' = 0
    /\ phone_seen' = FALSE
    /\ UNCHANGED <<time_time, last_sent, attempts, server>>

NextMonitor ==
    \/ MonitorTick
    \/ \E faces \in FaceCounts, phone \in BOOLEAN : ReadFrame(faces, phone)
    \/ ReadFailed
    \/ WakeUp
    \/ \E result \in SendResults : FaceNotFound(result)
    \/ \E result \in SendResults : MultipleFaces(result)
    \/ \E result \in SendResults : PhoneDetected(result)
    \/ \E quit \in BOOLEAN : ShowFrame(quit)

SpecMonitor == Init /\ [][NextMonitor]_vars

\* ================================================================ claims
Range(f) == {f[i] : i \in DOMAIN f}
Live(h) == spc[h] \in {"loop", "fanout"}
Ended(h) == spc[h] \in {"done", "crashed"}

\* The fan-out of event e has started and is no longer running.
FanoutOver(e) ==
    /\ e < nextEv
    /\ npc[e] # "fanout"
    /\ \A h \in StudentHandles : ~(spc[h] = "fanout" /\ scur[h] = e)

\* C1: stale-disconnect guard.  When the handler of a student connection h
\* ends by a disconnect, the registry entry of its student id is removed if it
\* still holds h, and is left alone if it holds a newer handle: after A is
\* registered with h1 and then with h2, the disconnect of h1 leaves A -> h2.
C1_StaleDisconnectGuard ==
    [][\A h \in StudentHandles :
          (Live(h) /\ spc'[h] = "done") =>
              active_students'[sid[h]] =
                  IF active_students[sid[h]] = h THEN None
                  ELSE active_students[sid[h]]]_vars

\* C3: frame fan-out survives partial failure.  A handler that is fanning out
\* a frame stays in its loop: no send failure ends it, and when the fan-out is
\* left every teacher of the list it was fanned out to has been sent the frame.
C3_FrameFanoutSurvivesFailure ==
    [][\A h \in StudentHandles :
          spc[h] = "fanout" =>
              /\ spc'[h] \in {"fanout", "loop"}
              /\ spc'[h] = "loop" =>
                    \A t \in snap[scur[h]] : Len(sends'[scur[h]][t]) >= 1]_vars

\* C4: registry cleanup on close.  Once the handler of a connection has
\* terminated, by a disconnect or by any error, neither active_students nor
\* teachers holds its handle.
C4_RegistryCleanupOnClose ==
    /\ \A h \in StudentHandles :
          Ended(h) => \A s \in StudentIds : active_students[s] # h
    /\ \A t \in TeacherHandles :
          tpc[t] \in {"done", "crashed"} => t \notin teachers

\* C5: delivery count per observer.  No event is sent to a teacher more than
\* once, and once the fan-out of an event is over every teacher that was
\* registered when it started and is registered still (so was registered
\* throughout: a handle registers once) has been sent it exactly once.
C5_DeliveryCountPerObserver ==
    \A e \in EventIds, t \in TeacherHandles :
        /\ Len(sends[e][t]) <= 1
        /\ (FanoutOver(e) /\ t \in snap[e] \cap teachers) => Len(sends[e][t]) = 1

\* C6: per-sender ordering.  Every teacher receives the frames and alerts of
\* one student id in the order in which the relay accepted them (the event
\* numbers of its fan-out messages for one student id increase).
C6_PerSenderOrdering ==
    \A t \in TeacherHandles : \A i, j \in 1..Len(inbox[t]) :
        (/\ i < j
         /\ inbox[t][i].ev # 0
         /\ inbox[t][j].ev # 0
         /\ inbox[t][i].student_id = inbox[t][j].student_id)
        => inbox[t][i].ev < inbox[t][j].ev

\* The intake calls accepted so far, and the place of call e in the log: its
\* violation is the k-th appended when it is the k-th call accepted.
Accepted == {e \in EventIds : npc[e] # "idle"}
LogIndex(e) == Cardinality({d \in Accepted : d <= e})

\* C2: violation fan-out survives partial failure.  No intake call ends by
\* raising, and a call that has returned has made one send to every teacher of
\* the list it took, whatever the outcomes of the other sends; each of those
\* sends that did not fail delivered the alert.
C2_ViolationFanoutSurvivesFailure ==
    \A e \in EventIds :
        /\ npc[e] # "raised"
        /\ npc[e] = "returned" =>
              \A t \in snap[e] :
                  /\ Len(sends[e][t]) = 1
                  /\ sends[e][t] = <<"ok">> => alert_msg(nmsg[e], e) \in Range(inbox[t])

\* A call returned after one send failed and another delivered the alert.
C2_Witness ==
    \E e \in EventIds : \E t, u \in snap[e] :
        /\ npc[e] = "returned"
        /\ sends[e][t] = <<"failed">>
        /\ sends[e][u] = <<"ok">>
        /\ alert_msg(nmsg[e], e) \in Range(inbox[u])

\* C7: the log append is not rolled back.  From the moment an intake call is
\* accepted, so before any of its sends, and whatever their outcomes, its
\* violation is in the log at its place, and every /violations response and
\* every response for its student id holds it.
C7_AppendNotRolledBack ==
    \A e \in Accepted :
        /\ LogIndex(e) <= Len(active_violations)
        /\ active_violations[LogIndex(e)] = nmsg[e]
        /\ resp.kind = "all" =>
              /\ LogIndex(e) <= Len(resp.violations)
              /\ resp.violations[LogIndex(e)] = nmsg[e]
        /\ resp.kind = nmsg[e].student_id =>
              Cardinality({i \in 1..Len(resp.violations) : resp.violations[i] = nmsg[e]})
                  >= Cardinality({d \in Accepted : nmsg[d] = nmsg[e]})

\* A query answered after a call whose every send failed.
C7_Witness ==
    \E e \in Accepted :
        /\ npc[e] = "returned"
        /\ snap[e] # {}
        /\ \A t \in snap[e] : sends[e][t] = <<"failed">>
        /\ resp.kind = nmsg[e].student_id
        /\ nmsg[e] \in Range(resp.violations)

IsPrefix(a, b) == Len(a) <= Len(b) /\ \A i \in 1..Len(a) : a[i] = b[i]

\* The indices of the records of student_id in log, and the k-th of them.
IndicesOf(log, student_id) == {i \in 1..Len(log) : log[i].student_id = student_id}
NthIndexOf(log, student_id, k) ==
    CHOOSE i \in IndicesOf(log, student_id) :
        Cardinality({j \in IndicesOf(log, student_id) : j <= i}) = k

C10_LateSubscription ==
    [][sub'.student_id # None =>
          LET s == sub'.student_id
              t == sub'.to
          IN /\ \A u \in TeacherHandles \ {t} : inbox'[u] = inbox[u]
             /\ IF pushed[s] = None
                THEN inbox' = inbox /\ tpc' = tpc /\ teachers' = teachers
                ELSE IF conn[t] = "open"
                     THEN /\ inbox'[t] = Append(inbox[t], screen_msg(s, pushed[s], 0))
                          /\ tpc' = tpc
                     ELSE inbox' = inbox
      ]_vars

\* A subscriber that was fanned out one frame of S and is sent another one on
\* its subscribe: the cache entry of S was overwritten in between.
C10_Witness ==
    /\ sub.student_id # None
    /\ inbox[sub.to] # <<>>
    /\ LET reply == inbox[sub.to][Len(inbox[sub.to])] IN
        /\ reply.ev = 0
        /\ reply.student_id = sub.student_id
        /\ \E i \in 1..Len(inbox[sub.to]) :
              /\ inbox[sub.to][i].ev # 0
              /\ inbox[sub.to][i].student_id = sub.student_id
              /\ inbox[sub.to][i].body # reply.body

\* ------------------------------------------------ claims on the analytics
\* C11: malformed input never rejects an event.  Every violation submitted
\* to the intake, whatever its timestamp (absent, empty, unparseable or
\* well-formed), is acknowledged with status ok and is the last record of the
\* log when the acknowledgement is returned.
C11_MalformedInputAccepted ==
    report.kind = "notify" =>
        /\ report.body.status = "ok"
        /\ active_violations # <<>>
        /\ active_violations[Len(active_violations)] =
              violation_record(report.request[1], report.request[2], report.request[3])

\* C12: overview idempotence.  Two overview() calls with no write between
\* them (only time may pass: any handler step in between clears report)
\* return the same body.
C12_OverviewIdempotent ==
    [][(report.kind = "overview" /\ report'.kind = "overview") =>
          report'.body = report.body]_vars

RECURSIVE SumOver(_, _)
SumOver(f, S) ==
    IF S = {} THEN 0
    ELSE LET x == CHOOSE y \in S : TRUE IN f[x] + SumOver(f, S \ {x})

SumOfIncidents(entries) ==
    SumOver([i \in 1..Len(entries) |-> entries[i].incidents], 1..Len(entries))

\* C13: consistent snapshot.  A report is computed from the log and the
\* registry as they are in the state it is returned in, whatever fan-outs are
\* in progress: an overview counts the whole log, its type breakdown sums to
\* that count, its online and frame counts are those of the registry and the
\* cache, and every student it (or a leaderboard, or an insight) reports has
\* as incidents the number of its records in the log; the points of a timeline
\* count no more records than the log holds.
C13_ConsistentSnapshot ==
    /\ report.kind = "overview" =>
          LET b == report.body IN
          /\ b.total_violations = Len(active_violations)
          /\ b.total_violations =
                SumOver(b.violation_type_breakdown, DOMAIN b.violation_type_breakdown)
          /\ b.total_students_online =
                Cardinality({s \in StudentIds : active_students[s] # None})
          /\ b.students_with_live_frames =
                Cardinality({s \in StudentIds : last_frames[s] # None})
          /\ SumOfIncidents(b.top_risky_students) = Len(active_violations)
          /\ \A i \in 1..Len(b.top_risky_students) :
                b.top_risky_students[i].incidents =
                    Cardinality(IndicesOf(active_violations,
                                          b.top_risky_students[i].student_id))
    /\ report.kind = "leaderboard" =>
          \A i \in 1..Len(report.body.leaderboard) :
              report.body.leaderboard[i].incidents =
                  Cardinality(IndicesOf(active_violations,
                                        report.body.leaderboard[i].student_id))
    /\ report.kind = "insights" =>
          report.body.incidents =
              Cardinality(IndicesOf(active_violations, report.body.student_id))
    /\ report.kind = "timeline" =>
          SumOfIncidents(report.body.points) <= Len(active_violations)

\* An overview of a log of two records, returned while an intake call is in
\* its fan-out and a student is connected.
C13_Witness ==
    /\ report.kind = "overview"
    /\ report.body.total_violations = 2
    /\ report.body.total_students_online >= 1
    /\ \E e \in EventIds : npc[e] = "fanout"

\* C14: queries are read-only.  A step that returns an overview, a
\* leaderboard, a timeline, an insight, /violations or /violations/{id}
\* leaves the violation log, the student registry, the observer set and the
\* frame cache as they were.
C14_QueriesReadOnly ==
    [][(\/ report'.kind \in {"overview", "leaderboard", "timeline", "insights"}
        \/ resp'.kind # None)
       => /\ active_violations' = active_violations
          /\ active_students' = active_students
          /\ teachers' = teachers
          /\ last_frames' = last_frames]_vars

\* A leaderboard returned with a violation in the log, a student registered,
\* a teacher connected and a frame cached.
C14_Witness ==
    /\ report.kind = "leaderboard"
    /\ active_violations # <<>>
    /\ teachers # {}
    /\ \E s \in StudentIds : active_students[s] # None /\ last_frames[s] # None

\* the level of a score of so many hundredths, by the thresholds 7, 15 and 30
LevelOf(score) ==
    CHOOSE l \in {"low", "medium", "high", "critical"} :
        /\ l = "low" <=> score < 700
        /\ l = "medium" <=> (700 <= score /\ score < 1500)
        /\ l = "high" <=> (1500 <= score /\ score < 3000)
        /\ l = "critical" <=> 3000 <= score

\* C15: risk_level is total and boundary-exact.  Every score gets exactly one
\* level: low below 7.00, medium from 7.00 and below 15.00, high from 15.00
\* and below 30.00, critical from 30.00 (6.99 low, 7.00 medium, 14.99 medium,
\* 15.00 high, 29.99 high, 30.00 critical); and the risk_level of every
\* summary is the level of the risk_score it reports.
C15_RiskLevelBoundaries ==
    /\ report.kind = "risk_level" =>
          /\ report.body \in {"low", "medium", "high", "critical"}
          /\ report.body = LevelOf(report.request[1])
          /\ report.request[1] = 699 => report.body = "low"
          /\ report.request[1] = 700 => report.body = "medium"
          /\ report.request[1] = 1499 => report.body = "medium"
          /\ report.request[1] = 1500 => report.body = "high"
          /\ report.request[1] = 2999 => report.body = "high"
          /\ report.request[1] = 3000 => report.body = "critical"
    /\ report.kind = "overview" =>
          \A i \in 1..Len(report.body.top_risky_students) :
              report.body.top_risky_students[i].risk_level =
                  LevelOf(report.body.top_risky_students[i].risk_score)

\* A summary on a boundary: three phone_detected violations of age 0 score
\* 15.00, which is high.
C15_Witness ==
    /\ report.kind = "overview"
    /\ \E i \in 1..Len(report.body.top_risky_students) :
          /\ report.body.top_risky_students[i].risk_score = 1500
          /\ report.body.top_risky_students[i].risk_level = "high"

\* the ranking of the log as it is, at the instant clock
Ranking(clock) == _compute_student_risks(active_violations, clock)

Ranked(entries) ==
    \A i \in 1..(Len(entries) - 1) :
        /\ entries[i].risk_score >= entries[i + 1].risk_score
        /\ entries[i].risk_score = entries[i + 1].risk_score =>
              entries[i].incidents >= entries[i + 1].incidents

\* C16: ranking order.  The ranking computed from the log has exactly one
\* entry per student id present in the log and is sorted descending by
\* (risk_score, incidents): no entry scores less than its successor, and of
\* two adjacent entries with equal score the one with more incidents comes
\* first.  An overview lists the first five entries of it, a leaderboard the
\* first limit entries.
C16_RankingOrder ==
    /\ LET r == Ranking(now) IN
          /\ {r[i].student_id : i \in 1..Len(r)} =
                {active_violations[i].student_id : i \in 1..Len(active_violations)}
          /\ \A i, j \in 1..Len(r) : r[i].student_id = r[j].student_id => i = j
          /\ Ranked(r)
    /\ report.kind = "overview" =>
          /\ Ranked(report.body.top_risky_students)
          /\ report.body.top_risky_students = take(Ranking(report.at), 5)
    /\ report.kind = "leaderboard" =>
          /\ Ranked(report.body.leaderboard)
          /\ report.body.leaderboard = take(Ranking(report.at), report.request[1])

\* An overview with two students of equal score: the one that entered the log
\* second, with more incidents, is listed first.
C16_Witness ==
    /\ report.kind = "overview"
    /\ Len(report.body.top_risky_students) = 2
    /\ LET first == report.body.top_risky_students[1]
           second == report.body.top_risky_students[2]
       IN /\ first.risk_score = second.risk_score
          /\ first.incidents > second.incidents
          /\ active_violations[1].student_id = second.student_id

\* occurred_at of the i-th record of the log for a query handled at clock:
\* its timestamp, normalized
OccurredAt(i, clock) == _parse_timestamp(active_violations[i].timestamp, clock)

\* the records a timeline over the last minutes minutes, handled at clock, counts
InWindow(minutes, clock) ==
    {i \in 1..Len(active_violations) :
        OccurredAt(i, clock) >= clock - minutes * UnitsPerMinute}

\* C17: timeline buckets.  A timeline has one point for every minute that
\* holds a record with occurred_at >= now - window and no other point; the
\* count of a point is the number of those records in its minute; the points
\* are in ascending order of their minutes; peak is one of the points and no
\* point counts more, and there is no peak when there is no point.
C17_TimelineBuckets ==
    report.kind = "timeline" =>
        LET points == report.body.points
            inside == InWindow(report.request[1], report.at)
            minute(i) == OccurredAt(i, report.at) \div UnitsPerMinute
        IN /\ {points[k].minute : k \in 1..Len(points)} = {minute(i) : i \in inside}
           /\ \A k \in 1..Len(points) :
                 points[k].incidents =
                     Cardinality({i \in inside : minute(i) = points[k].minute})
           /\ \A k \in 1..(Len(points) - 1) : points[k].minute < points[k + 1].minute
           /\ points = <<>> <=> report.body.peak_minute = <<>>
           /\ points # <<>> =>
                 /\ \E k \in 1..Len(points) : report.body.peak_minute = <<points[k]>>
                 /\ \A k \in 1..Len(points) :
                       points[k].incidents <= report.body.peak_minute[1].incidents

\* Records at 10:00:00, 10:00:40 and 10:01:00: two points counting 2 and 1,
\* the peak the first.
C17_Witness ==
    /\ report.kind = "timeline"
    /\ {OccurredAt(i, report.at) : i \in 1..Len(active_violations)} = {0, 2, 3}
    /\ report.body.points = <<[minute |-> 0, incidents |-> 2], [minute |-> 1, incidents |-> 1]>>
    /\ report.body.peak_minute = <<[minute |-> 0, incidents |-> 2]>>

\* how many of the records of student_id in the log have the type t
TypeCount(student_id, t) ==
    Cardinality({i \in IndicesOf(active_violations, student_id) :
                    active_violations[i].violation_type = t})

\* C18: student_insight.  For a student id without a record in the log the
\* insight is the fixed clean payload with incidents 0.  Otherwise incidents
\* is the number of records of that id, dominant_violation_count is the
\* number of them that have the dominant type, no type has more, and the
\* recommendation is the table entry of the dominant type: the
\* phone_detected one for phone_detected, the default for a type that is not
\* in the table.
C18_StudentInsight ==
    report.kind = "insights" =>
        LET s == report.request[1]
            b == report.body
        IN /\ b.student_id = s
           /\ b.incidents = Cardinality(IndicesOf(active_violations, s))
           /\ IndicesOf(active_violations, s) = {} =>
                 b = [student_id |-> s, incidents |-> 0, status |-> "clean",
                      insight |-> "No violations recorded yet.",
                      recommendation |-> "Keep monitoring in passive mode."]
           /\ IndicesOf(active_violations, s) # {} =>
                 /\ b.dominant_violation_count >= 1
                 /\ b.dominant_violation_count = TypeCount(s, b.dominant_violation_type)
                 /\ \A t \in FormTypes : TypeCount(s, t) <= b.dominant_violation_count
                 /\ b.dominant_violation_type = "phone_detected" =>
                       b.recommendation = "Do a manual integrity check now."
                 /\ b.dominant_violation_type \notin
                       {"tab_switch", "face_not_found", "multiple_faces", "phone_detected"} =>
                       b.recommendation = "Run a short manual check with the student."

\* Three violations of one type for a student: incidents 3, that type
\* dominant with count 3, and its recommendation.
C18_Witness ==
    /\ report.kind = "insights"
    /\ report.body.incidents = 3
    /\ report.body.dominant_violation_type = "phone_detected"
    /\ report.body.dominant_violation_count = 3
    /\ report.body.recommendation = "Do a manual integrity check now."

\* the summary of student_id in a ranking (no incidents, score 0 when it has none)
SummaryOf(ranking, student_id) ==
    IF \E i \in 1..Len(ranking) : ranking[i].student_id = student_id
    THEN LET e == ranking[CHOOSE i \in 1..Len(ranking) : ranking[i].student_id = student_id]
         IN <<e.incidents, e.risk_score>>
    ELSE <<0, 0>>

\* C19: risk score monotonicity.  At one evaluation instant (any: the one the
\* clock shows), the ranking of a log and the ranking of the same log without
\* its last record differ
\* for the student of that record alone: the record, whatever its type and
\* timestamp, adds one to the student's incidents and does not lower its
\* risk_score; every other student keeps its incidents and its score.
C19_RiskScoreMonotone ==
    active_violations # <<>> =>
        LET n == Len(active_violations)
            last == active_violations[n]
            before == _compute_student_risks(SubSeq(active_violations, 1, n - 1), now)
            after == _compute_student_risks(active_violations, now)
        IN \A s \in StudentIds :
              IF s = last.student_id
              THEN /\ SummaryOf(after, s)[1] = SummaryOf(before, s)[1] + 1
                   /\ SummaryOf(after, s)[2] >= SummaryOf(before, s)[2]
              ELSE SummaryOf(after, s) = SummaryOf(before, s)

\* A student with a record gets a second one, of an unknown type and with an
\* unparseable timestamp, while another student has a record; an overview
\* taken 20 minutes later shows both.
C19_Witness ==
    /\ Len(active_violations) = 3
    /\ active_violations[3].timestamp = "ts"
    /\ active_violations[3].violation_type = "yawning"
    /\ active_violations[1].student_id = active_violations[3].student_id
    /\ active_violations[2].student_id # active_violations[3].student_id
    /\ report.kind = "overview"
    /\ report.at = 63
    /\ SummaryOf(report.body.top_risky_students, active_violations[3].student_id)[1] = 2

\* the recency factor of the i-th record of the log at the instant the clock
\* shows, and its age in units of 20 seconds
FactorOf(i) == recency_factor(age_minutes(now, OccurredAt(i, now)))
AgeOf(i) == IF now > OccurredAt(i, now) THEN now - OccurredAt(i, now) ELSE 0

\* C20: recency weighting.  The factor of every record is in (0, 1]; it is 1
\* for a record that occurred now or in the future, below 1/2 for every
\* record older than 20 minutes, and never larger for an older record than
\* for a younger one.  The base weight is that of the severity table, 1.5 for
\* a type that is not in it, and the score reported for a student with one
\* record is its base weight times its factor, to the hundredth.
C20_RecencyWeighting ==
    \A i \in 1..Len(active_violations) :
        LET f == FactorOf(i)
            v == active_violations[i]
            w == base_weight(v.violation_type)
        IN /\ 0 < f[1] /\ f[1] <= f[2]
           /\ OccurredAt(i, now) >= now => f[1] = f[2]
           /\ AgeOf(i) > TwentyMinutes * UnitsPerMinute => 2 * f[1] < f[2]
           /\ \A j \in 1..Len(active_violations) :
                 AgeOf(i) <= AgeOf(j) => ~frac_less(f, FactorOf(j))
           /\ v.violation_type = "phone_detected" => w = 50
           /\ v.violation_type \notin {"tab_switch", "face_not_found", "multiple_faces",
                                        "phone_detected", "suspicious_window"} => w = 15
           /\ Cardinality(IndicesOf(active_violations, v.student_id)) = 1 =>
                 LET score == SummaryOf(Ranking(now), v.student_id)[2]
                     diff == score * f[2] - 10 * w * f[1]
                 IN 2 * diff <= f[2] /\ 0 - 2 * diff <= f[2]

\* Twenty minutes and twenty seconds after a phone_detected violation, and at
\* the instant of one of an unknown type: the overview scores the first below
\* half its weight and the second at 1.50.
C20_Witness ==
    /\ now = 63
    /\ report.kind = "overview"
    /\ report.at = 63
    /\ \E i, j \in 1..Len(active_violations) :
          /\ active_violations[i].violation_type = "phone_detected"
          /\ OccurredAt(i, now) = 2
          /\ active_violations[j].violation_type = "yawning"
          /\ OccurredAt(j, now) = 63
          /\ active_violations[i].student_id # active_violations[j].student_id
          /\ SummaryOf(report.body.top_risky_students, active_violations[i].student_id)[2] < 250
          /\ SummaryOf(report.body.top_risky_students, active_violations[j].student_id)[2] = 150

\* ------------------------------------------- claims of the last sections
\* The teachers that were delivered the alert of intake call e.
Delivered(e) ==
    {t \in TeacherHandles :
        \E i \in 1..Len(sends[e][t]) : sends[e][t][i] = "ok"}

\* C21: the observer count of the acknowledgement.  The teachers_notified of
\* a call that has returned is the number of teachers its alert was delivered
\* to: a teacher whose send failed, or that registered or disconnected during
\* the fan-out, is counted only if it received the alert.
C21_NotifiedCountsDelivered ==
    \A e \in EventIds :
        npc[e] = "returned" => nresp[e] = Cardinality(Delivered(e))

\* the minutes of the points of a timeline body
MinutesOf(body) == {body.points[k].minute : k \in 1..Len(body.points)}

\* C22: occurred_at is fixed once the record is appended.  Of two queries
\* with no write between them (only time passes), the later attributes every
\* record to the instant the earlier did: the insights of a student give the
\* same last_incident_at, and a timeline over the same window has no point
\* in a minute where the earlier one had none.
C22_OccurredAtFixed ==
    [][(/\ report.kind \in {"insights", "timeline"}
        /\ report'.kind = report.kind
        /\ report'.request = report.request
        /\ active_violations' = active_violations) =>
          /\ (report.kind = "insights" /\ report.body.incidents > 0) =>
                report'.body.risk.last_incident_at = report.body.risk.last_incident_at
          /\ report.kind = "timeline" =>
                MinutesOf(report'.body) \subseteq MinutesOf(report.body)]_vars

\* C23: frame cache lifetime.  The cache holds, for every student id, the
\* last frame pushed for it, and nothing for an id no frame was pushed for:
\* whatever else has happened since (the student's disconnect, teachers
\* connecting and disconnecting, intake calls, failed sends), the entry is
\* there and is that frame.  The write comes before the sends: while a frame
\* is being fanned out, and for every frame a teacher has been delivered, the
\* cache has an entry for its student id.
C23_FrameCacheLifetime ==
    /\ \A s \in StudentIds : last_frames[s] = pushed[s]
    /\ \A h \in StudentHandles : spc[h] = "fanout" => last_frames[sid[h]] # None
    /\ \A t \in TeacherHandles : \A i \in 1..Len(inbox[t]) :
          inbox[t][i].type = "screen" => last_frames[inbox[t][i].student_id] # None

\* The frame of a student is in the cache after the send of it failed and
\* ended the student's handler, the teacher disconnected and a violation
\* was taken in.
C23_Witness ==
    \E s \in StudentIds, e \in EventIds :
        /\ last_frames[s] \in Images
        /\ \A h \in StudentHandles : ~(Live(h) /\ sid[h] = s)
        /\ sends[e]["t1"] = <<"failed">>
        /\ snap[e] = {"t1"} /\ npc[e] = "idle"
        /\ tpc["t1"] = "done"
        /\ teachers = {}
        /\ active_violations # <<>>

\* the last send_violation call made for v_type
LastAttempt(v_type) == attempts[v_type][Len(attempts[v_type])]

\* C24: alert cooldown in the webcam monitor.  A step calls send_violation
\* for a type exactly when the loop passes the if of that type, the
\* type is detected in the frame and no call was made for that type in the
\* last Cooldown units of time, whatever the result of that call (a failed
\* send is not retried earlier) and whatever was sent for the other types;
\* so two consecutive calls for one type are at least Cooldown apart.
C24_AlertCooldown ==
    [][\A v \in AlertTypes :
          LET due == \/ attempts[v] = <<>>
                     \/ time_time - LastAttempt(v).at >= Cooldown
          IN IF monitor_pc = v /\ monitor_pc' # v /\ detected(v) /\ due
             THEN \E result \in SendResults :
                     attempts'[v] =
                         Append(attempts[v], [at |-> time_time, result |-> result])
             ELSE attempts'[v] = attempts[v]
      ]_vars

\* A type whose first send raised and that was sent again exactly Cooldown
\* later, with an alert of another type sent in between.
C24_Witness ==
    \E v, w \in AlertTypes :
        /\ v # w
        /\ Len(attempts[v]) = 2
        /\ attempts[v][1].result = "raised"
        /\ attempts[v][2].at = attempts[v][1].at + Cooldown
        /\ \E i \in 1..Len(attempts[w]) :
              /\ attempts[v][1].at < attempts[w][i].at
              /\ attempts[w][i].at < attempts[v][2].at
====
